---- MODULE Spec2Model ----
(***************************************************************************)
(* Model of the NetoStore pricing engine (lib/pricing-engine.ts), of the    *)
(* cart API (app/api/cart/route.ts, services/cart-service.ts over the      *)
(* cart_items table of supabase/schema.sql) and of the guest cart          *)
(* (components/providers/cart-provider.tsx).                               *)
(*                                                                         *)
(* Numbers.  The engine works on JavaScript numbers holding dollar         *)
(* amounts.  The model uses exact decimal arithmetic on integers:          *)
(*   - every amount that enters or leaves the engine is held in cents;     *)
(*   - the unrounded locals of calculateProductPrice (originalPrice,       *)
(*     currentPrice, discountAmount, bulkDiscount, memberDiscount) are     *)
(*     held in units of 1/Scale cent, fine enough for the three            *)
(*     percentage steps to be exact;                                       *)
(*   - Math.round(x * 100) / 100 is rounding to the cent.                  *)
(* Binary floating point: the amounts of the model are decimals of at most *)
(* eight places, so a value that is not an exact half cent lies far from   *)
(* one (at least 1/Scale cent, against a representation error below 1e-9   *)
(* cent) and rounds as in exact arithmetic.  A value that is an exact half *)
(* cent in decimal is, as a double, either the half or a hair below it:    *)
(* Math.round then goes up or down.  Every call draws that outcome for     *)
(* each of its Math.round sites (BOOLEAN `up`), so both are covered.       *)
(*                                                                         *)
(* Strings are sequences of one-character strings, so that trim() and      *)
(* toUpperCase() are computed rather than assumed.                         *)
(***************************************************************************)
EXTENDS Integers, Sequences, FiniteSets, TLC

VARIABLES
    PROMO_CODES,   \* the module-level promo registry
    fn,            \* name of the function or route whose call is returning ("" between calls)
    args,          \* its arguments
    ret,           \* the value it returned
    currentPrice,  \* calculateProductPrice: the local currentPrice after rules 1, 2, 3
    calls,         \* history: the last two results a caller kept
    cart_items,    \* the rows of table cart_items
    dbLog,         \* the statements the running request sent to cart_items
    adds,          \* the addToCart calls in progress, each with its position and locals
    guestCart,     \* CartProvider: the guestCart state
    localStorage   \* the browser's entry "neto-guest-cart" (Null: none)

vars == <<PROMO_CODES, fn, args, ret, currentPrice, calls,
          cart_items, dbLog, adds, guestCart, localStorage>>

\* the state outside the pricing engine
storeVars == <<cart_items, dbLog, adds, guestCart, localStorage>>

-----------------------------------------------------------------------------
(* Bounds of the model *)

MaxSmallPrice == 12      \* prices 0 .. MaxSmallPrice cents are all enumerated
MaxQuantity == 4         \* quantities 1 .. MaxQuantity
MaxNow == 2              \* clock readings 0 .. MaxNow
MaxLines == 2            \* carts of 0 .. MaxLines lines
MaxCartQuantity == 2     \* stored cart quantities 1 .. MaxCartQuantity

-----------------------------------------------------------------------------
(* Optional (nullable) values: null is <<>>, a value v is <<v>> *)

Null == <<>>

Some(v) == <<v>>

IsNull(o) == o = <<>>

Val(o) == o[1]

-----------------------------------------------------------------------------
(* Arithmetic *)

\* Units per cent of the unrounded locals: 100 for the product percentage,
\* 10 for the bulk step (10/100), 20 for the member step (5/100).
Scale == 100 * 10 * 20

Dollars(d) == d * 100

Min(a, b) == IF a < b THEN a ELSE b

RECURSIVE GCD(_, _)
GCD(a, b) == IF b = 0 THEN a ELSE GCD(b, a % b)

\* x * (p / 100), exact whenever 100 / gcd(p, 100) divides x
Percent(x, p) ==
    IF p = 0 THEN 0
    ELSE LET g == GCD(p, 100) IN (x \div (100 \div g)) * (p \div g)

\* Math.round(x * 100) / 100 for x in units of 1/Scale cent; the result in cents.
\* Math.round rounds to the nearest integer, halves towards +infinity; up is
\* FALSE when the double holding an exact half cent lies below the half.
\* bug: Math.floor in place of Math.round
MutRound2(x, up) == x \div Scale

Round2(x, up) ==
    IF x % Scale = Scale \div 2 /\ ~up
    THEN x \div Scale
    ELSE (x + Scale \div 2) \div Scale

\* bug: the product truncated instead of rounded
MutRound2Percent(x, rate, up) == (x * rate) \div 100

\* Math.round(x * (rate / 100) * 100) / 100 for x in cents; the result in cents.
Round2Percent(x, rate, up) ==
    IF (x * rate) % 100 = 50 /\ ~up
    THEN (x * rate) \div 100
    ELSE (x * rate + 50) \div 100

-----------------------------------------------------------------------------
(* Constants of the engine *)

BULK_DISCOUNT_THRESHOLD == 3

BULK_DISCOUNT_PERCENTAGE == 10

MEMBER_DISCOUNT_PERCENTAGE == 5

FREE_SHIPPING_THRESHOLD == 1000

STANDARD_SHIPPING_COST == 15

DEFAULT_TAX_RATE == 10

-----------------------------------------------------------------------------
(* Per-line pricing *)

\* bug: > in place of >=
MutApplyBulkDiscount(subtotal, quantity) ==
    IF quantity > BULK_DISCOUNT_THRESHOLD
    THEN Percent(subtotal, BULK_DISCOUNT_PERCENTAGE)
    ELSE 0

applyBulkDiscount(subtotal, quantity) ==
    IF quantity >= BULK_DISCOUNT_THRESHOLD
    THEN Percent(subtotal, BULK_DISCOUNT_PERCENTAGE)
    ELSE 0

\* bug: the member discount given to everyone
MutApplyMemberDiscount(subtotal, isAuthenticated) ==
    Percent(subtotal, MEMBER_DISCOUNT_PERCENTAGE)

applyMemberDiscount(subtotal, isAuthenticated) ==
    IF isAuthenticated
    THEN Percent(subtotal, MEMBER_DISCOUNT_PERCENTAGE)
    ELSE 0

\* product.discount_percentage && product.discount_percentage > 0
HasProductDiscount(product) ==
    /\ ~IsNull(product.discount_percentage)
    /\ Val(product.discount_percentage) # 0
    /\ Val(product.discount_percentage) > 0

\* bug: the quantity left out of the line price
MutOriginalPrice(product, quantity) == product.price * Scale

\* const originalPrice = product.price * quantity   (units of 1/Scale cent)
OriginalPrice(product, quantity) == product.price * quantity * Scale

\* Rule 1: the discount taken off the running price
ProductDiscountAmount(product, price) ==
    Percent(price, Val(product.discount_percentage))

\* currentPrice after rule 1
AfterProduct(product, quantity) ==
    LET price == OriginalPrice(product, quantity) IN
    IF HasProductDiscount(product)
    THEN price - ProductDiscountAmount(product, price)
    ELSE price

\* bug: the bulk percentage taken of the original price
MutBulkBase(product, quantity) == OriginalPrice(product, quantity)

\* Rule 2: the base the bulk discount is computed on
BulkBase(product, quantity) == AfterProduct(product, quantity)

\* bug: the bulk discount subtracted is a share of the original price
MutAfterBulk(product, quantity) ==
    AfterProduct(product, quantity)
    - applyBulkDiscount(OriginalPrice(product, quantity), quantity)

\* currentPrice after rule 2
AfterBulk(product, quantity) ==
    LET price == AfterProduct(product, quantity)
        bulkDiscount == applyBulkDiscount(BulkBase(product, quantity), quantity)
    IN  IF bulkDiscount > 0 THEN price - bulkDiscount ELSE price

\* bug: the member percentage taken of the price before the bulk discount
MutMemberBase(product, quantity) == AfterProduct(product, quantity)

\* Rule 3: the base the member discount is computed on
MemberBase(product, quantity) == AfterBulk(product, quantity)

\* bug: the member discount added instead of subtracted
MutAfterMember(product, quantity, isAuthenticated) ==
    AfterBulk(product, quantity)
    + applyMemberDiscount(MemberBase(product, quantity), isAuthenticated)

\* currentPrice after rule 3
AfterMember(product, quantity, isAuthenticated) ==
    LET price == AfterBulk(product, quantity)
        memberDiscount ==
            applyMemberDiscount(MemberBase(product, quantity), isAuthenticated)
    IN  IF memberDiscount > 0 THEN price - memberDiscount ELSE price

\* bug: the member entry pushed before the bulk entry
MutDiscounts(product, quantity, isAuthenticated, ties) ==
    LET originalPrice == OriginalPrice(product, quantity)
        bulkDiscount == applyBulkDiscount(BulkBase(product, quantity), quantity)
        memberDiscount ==
            applyMemberDiscount(MemberBase(product, quantity), isAuthenticated)
    IN  (IF HasProductDiscount(product)
         THEN << [type |-> "product",
                  percentage |-> Val(product.discount_percentage),
                  amount |-> Round2(ProductDiscountAmount(product, originalPrice),
                                    ties.product)] >>
         ELSE << >>)
        \o
        (IF memberDiscount > 0
         THEN << [type |-> "member",
                  percentage |-> MEMBER_DISCOUNT_PERCENTAGE,
                  amount |-> Round2(memberDiscount, ties.member)] >>
         ELSE << >>)
        \o
        (IF bulkDiscount > 0
         THEN << [type |-> "bulk",
                  percentage |-> BULK_DISCOUNT_PERCENTAGE,
                  amount |-> Round2(bulkDiscount, ties.bulk)] >>
         ELSE << >>)

\* the discounts array, in push order; ties says which way each Math.round
\* takes an exact half cent
Discounts(product, quantity, isAuthenticated, ties) ==
    LET originalPrice == OriginalPrice(product, quantity)
        bulkDiscount == applyBulkDiscount(BulkBase(product, quantity), quantity)
        memberDiscount ==
            applyMemberDiscount(MemberBase(product, quantity), isAuthenticated)
    IN  (IF HasProductDiscount(product)
         THEN << [type |-> "product",
                  percentage |-> Val(product.discount_percentage),
                  amount |-> Round2(ProductDiscountAmount(product, originalPrice),
                                    ties.product)] >>
         ELSE << >>)
        \o
        (IF bulkDiscount > 0
         THEN << [type |-> "bulk",
                  percentage |-> BULK_DISCOUNT_PERCENTAGE,
                  amount |-> Round2(bulkDiscount, ties.bulk)] >>
         ELSE << >>)
        \o
        (IF memberDiscount > 0
         THEN << [type |-> "member",
                  percentage |-> MEMBER_DISCOUNT_PERCENTAGE,
                  amount |-> Round2(memberDiscount, ties.member)] >>
         ELSE << >>)

\* const finalPrice = Math.round(currentPrice * 100) / 100
FinalPrice(price, up) == Round2(price, up)

\* const totalDiscount = Math.round((originalPrice - finalPrice) * 100) / 100
\* (a difference of two-decimal amounts: never an exact half cent)
TotalDiscount(originalPrice, finalPrice) ==
    Round2(originalPrice - finalPrice * Scale, TRUE)

\* bug: totalDiscount computed from the unrounded running price
MutCalculateProductPrice(product, quantity, isAuthenticated, ties) ==
    LET originalPrice == OriginalPrice(product, quantity)
        price == AfterMember(product, quantity, isAuthenticated)
    IN  [ originalPrice |-> Round2(originalPrice, TRUE),
          finalPrice    |-> FinalPrice(price, ties.final),
          discounts     |-> Discounts(product, quantity, isAuthenticated, ties),
          totalDiscount |-> Round2(originalPrice - price, ties.final) ]

calculateProductPrice(product, quantity, isAuthenticated, ties) ==
    LET originalPrice == OriginalPrice(product, quantity)
        finalPrice == FinalPrice(AfterMember(product, quantity, isAuthenticated),
                                 ties.final)
    IN  [ originalPrice |-> Round2(originalPrice, TRUE),
          finalPrice    |-> finalPrice,
          discounts     |-> Discounts(product, quantity, isAuthenticated, ties),
          totalDiscount |-> TotalDiscount(originalPrice, finalPrice) ]

-----------------------------------------------------------------------------
(* Shipping and tax; amounts in cents *)

\* bug: >= in place of >
MutCalculateShipping(total) ==
    LET isFreeShipping == total >= Dollars(FREE_SHIPPING_THRESHOLD) IN
    [ cost |-> IF isFreeShipping THEN 0 ELSE Dollars(STANDARD_SHIPPING_COST),
      isFreeShipping |-> isFreeShipping,
      freeShippingThreshold |-> Dollars(FREE_SHIPPING_THRESHOLD) ]

calculateShipping(total) ==
    LET isFreeShipping == total > Dollars(FREE_SHIPPING_THRESHOLD) IN
    [ cost |-> IF isFreeShipping THEN 0 ELSE Dollars(STANDARD_SHIPPING_COST),
      isFreeShipping |-> isFreeShipping,
      freeShippingThreshold |-> Dollars(FREE_SHIPPING_THRESHOLD) ]

\* taxRate is Null when the caller omits it (the default parameter applies)
TaxRateUsed(taxRate) == IF IsNull(taxRate) THEN DEFAULT_TAX_RATE ELSE Val(taxRate)

calculateTax(amount, taxRate, up) ==
    LET rate == TaxRateUsed(taxRate) IN
    [ rate   |-> rate,
      amount |-> Round2Percent(amount, rate, up),
      label  |-> <<"GST (", rate, "%)">> ]

-----------------------------------------------------------------------------
(* Strings *)

Lower == << "a", "b", "c", "d", "e", "f", "g", "h", "i", "j", "k", "l", "m",
            "n", "o", "p", "q", "r", "s", "t", "u", "v", "w", "x", "y", "z" >>

Upper == << "A", "B", "C", "D", "E", "F", "G", "H", "I", "J", "K", "L", "M",
            "N", "O", "P", "Q", "R", "S", "T", "U", "V", "W", "X", "Y", "Z" >>

WhiteSpace == { " ", "\t", "\n" }

UpperChar(c) ==
    IF \E i \in DOMAIN Lower : Lower[i] = c
    THEN Upper[CHOOSE i \in DOMAIN Lower : Lower[i] = c]
    ELSE c

toUpperCase(s) == [ i \in 1..Len(s) |-> UpperChar(s[i]) ]

RECURSIVE TrimStart(_)
TrimStart(s) ==
    IF s # << >> /\ Head(s) \in WhiteSpace THEN TrimStart(Tail(s)) ELSE s

RECURSIVE TrimEnd(_)
TrimEnd(s) ==
    IF s # << >> /\ s[Len(s)] \in WhiteSpace
    THEN TrimEnd(SubSeq(s, 1, Len(s) - 1))
    ELSE s

trim(s) == TrimEnd(TrimStart(s))

\* amount.toFixed(2) of a whole-cent amount: <<dollars, cents>>
toFixed2(cents) == << cents \div 100, cents % 100 >>

-----------------------------------------------------------------------------
(* Promo codes *)

SAVE10 == << "S", "A", "V", "E", "1", "0" >>

FLAT20 == << "F", "L", "A", "T", "2", "0" >>

WELCOME15 == << "W", "E", "L", "C", "O", "M", "E", "1", "5" >>

\* The built-in registry.  discount_value is a percentage for the percentage
\* type and an amount (held in cents) for the fixed type.
InitialPromoCodes ==
    << [ code |-> SAVE10, discount_type |-> "percentage", discount_value |-> 10,
         min_order_amount |-> Some(Dollars(50)), max_uses |-> Null,
         current_uses |-> 0, active |-> TRUE, expires_at |-> Null ],
       [ code |-> FLAT20, discount_type |-> "fixed", discount_value |-> Dollars(20),
         min_order_amount |-> Some(Dollars(100)), max_uses |-> Some(100),
         current_uses |-> 12, active |-> TRUE, expires_at |-> Null ],
       [ code |-> WELCOME15, discount_type |-> "percentage", discount_value |-> 15,
         min_order_amount |-> Null, max_uses |-> Some(1),
         current_uses |-> 0, active |-> TRUE, expires_at |-> Null ] >>

\* bug: trim() left out
MutNormalize(code) == toUpperCase(code)

\* const normalized = code.trim().toUpperCase()
Normalize(code) == toUpperCase(trim(code))

\* PROMO_CODES.find((p) => p.code === normalized): the first match, or Null
FindPromo(normalized) ==
    LET hits == { i \in DOMAIN PROMO_CODES : PROMO_CODES[i].code = normalized } IN
    IF hits = {} THEN Null
    ELSE Some(PROMO_CODES[CHOOSE i \in hits : \A j \in hits : i <= j])

\* the validation checks, in the order of the if statements
Inactive(promo) == ~promo.active

\* bug: the date compared without the guard; new Date(null) is the epoch,
\* clock reading 0
MutExpired(promo, now) ==
    (IF IsNull(promo.expires_at) THEN 0 ELSE Val(promo.expires_at)) < now

\* promo.expires_at && new Date(promo.expires_at) < new Date()
Expired(promo, now) == ~IsNull(promo.expires_at) /\ Val(promo.expires_at) < now

UsageLimitReached(promo) ==
    ~IsNull(promo.max_uses) /\ promo.current_uses >= Val(promo.max_uses)

\* bug: <= in place of <
MutBelowMinimumOrder(promo, orderTotal) ==
    ~IsNull(promo.min_order_amount) /\ orderTotal <= Val(promo.min_order_amount)

BelowMinimumOrder(promo, orderTotal) ==
    ~IsNull(promo.min_order_amount) /\ orderTotal < Val(promo.min_order_amount)

ErrNotFound == << "Invalid promo code" >>

ErrInactive == << "This promo code is no longer active" >>

ErrExpired == << "This promo code has expired" >>

ErrUsageLimit == << "This promo code has reached its usage limit" >>

ErrMinimumOrder(promo) ==
    << "Minimum order of $", toFixed2(Val(promo.min_order_amount)), " required" >>

\* bug: the error left out of the result
MutInvalid(normalized, error) ==
    [ valid |-> FALSE, code |-> normalized, discount_amount |-> 0 ]

Invalid(normalized, error) ==
    [ valid |-> FALSE, code |-> normalized, discount_amount |-> 0, error |-> error ]

\* bug: the fixed amount not capped at the order total
MutPromoDiscountAmount(promo, orderTotal, up) ==
    IF promo.discount_type = "percentage"
    THEN Round2Percent(orderTotal, promo.discount_value, up)
    ELSE promo.discount_value

PromoDiscountAmount(promo, orderTotal, up) ==
    IF promo.discount_type = "percentage"
    THEN Round2Percent(orderTotal, promo.discount_value, up)
    ELSE Min(promo.discount_value, orderTotal)

\* bug: the minimum order check left out
MutValidatePromoNoMinimum(promo, normalized, orderTotal, now, up) ==
    IF Inactive(promo) THEN Invalid(normalized, ErrInactive)
    ELSE IF Expired(promo, now) THEN Invalid(normalized, ErrExpired)
    ELSE IF UsageLimitReached(promo) THEN Invalid(normalized, ErrUsageLimit)
    ELSE [ valid |-> TRUE, code |-> normalized,
           discount_amount |-> PromoDiscountAmount(promo, orderTotal, up) ]

\* bug: the minimum order checked first
MutValidatePromo(promo, normalized, orderTotal, now, up) ==
    IF BelowMinimumOrder(promo, orderTotal)
    THEN Invalid(normalized, ErrMinimumOrder(promo))
    ELSE IF Inactive(promo) THEN Invalid(normalized, ErrInactive)
    ELSE IF Expired(promo, now) THEN Invalid(normalized, ErrExpired)
    ELSE IF UsageLimitReached(promo) THEN Invalid(normalized, ErrUsageLimit)
    ELSE [ valid |-> TRUE, code |-> normalized,
           discount_amount |-> PromoDiscountAmount(promo, orderTotal, up) ]

\* the checks on a found entry
ValidatePromo(promo, normalized, orderTotal, now, up) ==
    IF Inactive(promo) THEN Invalid(normalized, ErrInactive)
    ELSE IF Expired(promo, now) THEN Invalid(normalized, ErrExpired)
    ELSE IF UsageLimitReached(promo) THEN Invalid(normalized, ErrUsageLimit)
    ELSE IF BelowMinimumOrder(promo, orderTotal)
         THEN Invalid(normalized, ErrMinimumOrder(promo))
    ELSE [ valid |-> TRUE, code |-> normalized,
           discount_amount |-> PromoDiscountAmount(promo, orderTotal, up) ]

\* now is the reading of new Date()
applyPromoCode(code, orderTotal, now, up) ==
    LET normalized == Normalize(code)
        promo == FindPromo(normalized)
    IN  IF IsNull(promo) THEN Invalid(normalized, ErrNotFound)
        ELSE ValidatePromo(Val(promo), normalized, orderTotal, now, up)

getAvailablePromoCodes == SelectSeq(PROMO_CODES, LAMBDA p : p.active)

\* bug: a successful application counted in the entry's current_uses
MutPromoCodesAfterApply(promoResult) ==
    [ i \in DOMAIN PROMO_CODES |->
        IF /\ ~IsNull(promoResult)
           /\ Val(promoResult).valid
           /\ PROMO_CODES[i].code = Val(promoResult).code
        THEN [ PROMO_CODES[i] EXCEPT !.current_uses = @ + 1 ]
        ELSE PROMO_CODES[i] ]

\* the registry after applyPromoCode returned promoResult (Null: it was not
\* called): the function reads the entry it found and assigns to none
PromoCodesAfterApply(promoResult) == PROMO_CODES

-----------------------------------------------------------------------------
(* Cart summary; amounts in cents *)

RECURSIVE Sum(_)
Sum(seq) == IF seq = << >> THEN 0 ELSE Head(seq) + Sum(Tail(seq))

RECURSIVE Concat(_)
Concat(seqs) == IF seqs = << >> THEN << >> ELSE Head(seqs) \o Concat(Tail(seqs))

\* Math.round(x * 100) / 100 for x a sum of two-decimal amounts, held in cents
RoundCents(x) == (x * 100 + 50) \div 100

\* items.map(...): each line with its pricing; ties[i] are the Math.round
\* outcomes of line i
ItemPricings(items, isAuthenticated, ties) ==
    [ i \in 1 .. Len(items) |->
        [ product  |-> items[i].product,
          quantity |-> items[i].quantity,
          pricing  |-> calculateProductPrice(items[i].product, items[i].quantity,
                                             isAuthenticated, ties[i]) ] ]

\* subtotal += pricing.originalPrice, over the lines
Subtotal(itemPricings) ==
    Sum([ i \in 1 .. Len(itemPricings) |-> itemPricings[i].pricing.originalPrice ])

\* bug: the promo code validated against the undiscounted subtotal
MutLinesTotal(itemPricings) == Subtotal(itemPricings)

\* itemPricings.reduce((sum, item) => sum + item.pricing.finalPrice, 0)
LinesTotal(itemPricings) ==
    Sum([ i \in 1 .. Len(itemPricings) |-> itemPricings[i].pricing.finalPrice ])

\* if (promoCode): undefined (Null) and the empty string are falsy
PromoSupplied(promoCode) == ~IsNull(promoCode) /\ Val(promoCode) # << >>

\* promoResult: Null is undefined
PromoResultOf(promoCode, total, now, up) ==
    IF PromoSupplied(promoCode)
    THEN Some(applyPromoCode(Val(promoCode), total, now, up))
    ELSE Null

PromoApplies(promoResult) == ~IsNull(promoResult) /\ Val(promoResult).valid

\* the entries pushed to allDiscounts for the promo code
PromoEntry(promoResult) ==
    IF PromoApplies(promoResult)
    THEN << [ type |-> "promo", percentage |-> 0,
              amount |-> Val(promoResult).discount_amount ] >>
    ELSE << >>

\* totalAfterDiscounts after the promo block
AfterPromo(total, promoResult) ==
    IF PromoApplies(promoResult)
    THEN total - Val(promoResult).discount_amount
    ELSE total

\* bug: the free-shipping decision taken on the total with tax
MutShippingBase(totalAfterDiscounts, tax) == totalAfterDiscounts + tax.amount

\* calculateShipping(totalAfterDiscounts)
ShippingBase(totalAfterDiscounts, tax) == totalAfterDiscounts

\* bug: the tax left out of the total
MutCartTotal(totalAfterDiscounts, tax, shipping) ==
    RoundCents(totalAfterDiscounts + shipping.cost)

CartTotal(totalAfterDiscounts, tax, shipping) ==
    RoundCents(totalAfterDiscounts + tax.amount + shipping.cost)

\* fp: the Math.round outcomes at exact half cents, per line, for the promo
\* percentage and for the tax
calculateCartSummary(items, isAuthenticated, promoCode, now, fp) ==
    LET itemPricings == ItemPricings(items, isAuthenticated, fp.lines)
        subtotal == Subtotal(itemPricings)
        promoResult ==
            PromoResultOf(promoCode, LinesTotal(itemPricings), now, fp.promo)
        totalAfterDiscounts == AfterPromo(LinesTotal(itemPricings), promoResult)
        tax == calculateTax(totalAfterDiscounts, Null, fp.tax)
        shipping == calculateShipping(ShippingBase(totalAfterDiscounts, tax))
    IN  [ items |-> itemPricings,
          subtotal |-> RoundCents(subtotal),
          totalAfterDiscounts |-> RoundCents(totalAfterDiscounts),
          totalDiscount |-> RoundCents(subtotal - totalAfterDiscounts),
          discounts |->
              Concat([ i \in 1 .. Len(itemPricings) |->
                         itemPricings[i].pricing.discounts ])
              \o PromoEntry(promoResult),
          tax |-> tax,
          shipping |-> shipping,
          promoResult |-> promoResult,
          total |-> CartTotal(totalAfterDiscounts, tax, shipping),
          itemCount |->
              Sum([ i \in 1 .. Len(items) |-> items[i].quantity ]) ]

-----------------------------------------------------------------------------
(* Table cart_items under its constraints and row level security.          *)
(* Quantities are counted in halves, so that 0.5 and 1.5 are values a       *)
(* request can carry and the INTEGER column can refuse.                     *)

\* n as a count of halves
Halves(n) == n * 2

IsInteger(h) == h % 2 = 0

\* auth.users and products: the rows the foreign keys can point to
Users == { "A", "B" }

ProductIds == { "p1", "p2" }

\* ids of cart rows (UUIDs in the program), one for each row the table can hold
ItemIds == { "i1", "i2", "i3", "i4" }

\* uuid_generate_v4(): an id no row has
NewIds(rows) == { i \in ItemIds : \A r \in rows : r.id # i }

\* the id a new row gets; used only when the table has room for the row
FreshId(rows) == IF NewIds(rows) = { } THEN "" ELSE CHOOSE i \in NewIds(rows) : TRUE

\* the policies on cart_items: USING / WITH CHECK (auth.uid() = user_id)
Policy(uid, row) == uid = row.user_id

\* .eq("id", itemId) and, where the statement has it, .eq("user_id", userId)
Matches(row, itemId, userFilter) ==
    /\ row.id = itemId
    /\ IsNull(userFilter) \/ row.user_id = Val(userFilter)

\* bug: the row addressed by its id alone, with no policy on the table
MutTargets(rows, uid, itemId, userFilter) == { r \in rows : r.id = itemId }

\* the rows an UPDATE or DELETE with these filters reaches for session uid
Targets(rows, uid, itemId, userFilter) ==
    { r \in rows : Matches(r, itemId, userFilter) /\ Policy(uid, r) }

\* bug: every row of the table returned
MutDbSelect(rows, uid, userId) == rows

\* select("*, products(*)").eq("user_id", userId)
DbSelect(rows, uid, userId) ==
    { r \in rows : r.user_id = userId /\ Policy(uid, r) }

\* select("id, quantity").eq("user_id", ..).eq("product_id", ..).single():
\* the row when exactly one matches, else null
DbSelectSingle(rows, uid, userId, productId) ==
    LET found == { r \in DbSelect(rows, uid, userId) : r.product_id = productId }
    IN  IF Cardinality(found) = 1 THEN Some(CHOOSE r \in found : TRUE) ELSE Null

DbOk(rows) == [ rows |-> rows, error |-> Null ]

DbError(rows, code) == [ rows |-> rows, error |-> Some(code) ]

\* bug: a quantity column that takes any number
MutDbUpdate(rows, uid, itemId, userFilter, quantity) ==
    LET hit == Targets(rows, uid, itemId, userFilter) IN
    DbOk((rows \ hit) \cup { [ r EXCEPT !.quantity = quantity ] : r \in hit })

\* update({ quantity }) on the rows reached: quantity INTEGER, CHECK (quantity > 0)
DbUpdate(rows, uid, itemId, userFilter, quantity) ==
    LET hit == Targets(rows, uid, itemId, userFilter) IN
    IF ~IsInteger(quantity) THEN DbError(rows, "22P02")
    ELSE IF hit # { } /\ quantity <= 0 THEN DbError(rows, "23514")
    ELSE DbOk((rows \ hit) \cup { [ r EXCEPT !.quantity = quantity ] : r \in hit })

\* insert({ user_id, product_id, quantity }): the column type, the policy, the
\* two foreign keys, the CHECK and UNIQUE(user_id, product_id)
DbInsert(rows, uid, userId, productId, quantity, id) ==
    IF ~IsInteger(quantity) THEN DbError(rows, "22P02")
    ELSE IF ~Policy(uid, [ user_id |-> userId ]) THEN DbError(rows, "42501")
    ELSE IF userId \notin Users \/ productId \notin ProductIds
         THEN DbError(rows, "23503")
    ELSE IF quantity <= 0 THEN DbError(rows, "23514")
    ELSE IF \E r \in rows : r.user_id = userId /\ r.product_id = productId
         THEN DbError(rows, "23505")
    ELSE DbOk(rows \cup { [ id |-> id, user_id |-> userId,
                            product_id |-> productId, quantity |-> quantity ] })

\* delete() on the rows reached
DbDelete(rows, uid, itemId, userFilter) ==
    DbOk(rows \ Targets(rows, uid, itemId, userFilter))

-----------------------------------------------------------------------------
(* services/cart-service.ts.  Each function returns the table as it leaves  *)
(* it, the error it throws (Null: none) and the statements it sent.         *)

Thrown(prefix, result) ==
    IF IsNull(result.error) THEN Null ELSE Some(<< prefix, Val(result.error) >>)

getCartItems(rows, uid, userId) ==
    [ data |-> DbSelect(rows, uid, userId), rows |-> rows, error |-> Null,
      log |-> << "select" >> ]

\* addToCart after the select: update the row found, or insert one
AddToCartWrite(rows, uid, existing, userId, productId, quantity, id) ==
    IF ~IsNull(existing)
    THEN LET done == DbUpdate(rows, uid, Val(existing).id, Null,
                              Val(existing).quantity + quantity)
         IN  [ rows |-> done.rows,
               error |-> Thrown("Failed to update cart: ", done),
               log |-> << "update" >> ]
    ELSE LET done == DbInsert(rows, uid, userId, productId, quantity, id)
         IN  [ rows |-> done.rows,
               error |-> Thrown("Failed to add to cart: ", done),
               log |-> << "insert" >> ]

addToCart(rows, uid, userId, productId, quantity, id) ==
    LET existing == DbSelectSingle(rows, uid, userId, productId)
        done == AddToCartWrite(rows, uid, existing, userId, productId, quantity, id)
    IN  [ done EXCEPT !.log = << "select" >> \o @ ]

removeCartItem(rows, uid, itemId, userId) ==
    LET done == DbDelete(rows, uid, itemId, Some(userId))
    IN  [ rows |-> done.rows,
          error |-> Thrown("Failed to remove cart item: ", done),
          log |-> << "delete" >> ]

updateCartItem(rows, uid, itemId, userId, quantity) ==
    IF quantity <= 0 THEN removeCartItem(rows, uid, itemId, userId)
    ELSE LET done == DbUpdate(rows, uid, itemId, Some(userId), quantity)
         IN  [ rows |-> done.rows,
               error |-> Thrown("Failed to update cart item: ", done),
               log |-> << "update" >> ]

-----------------------------------------------------------------------------
(* app/api/cart/route.ts.  A JSON value is [type, halves]; a field of the   *)
(* body is Null when absent.                                                *)

Number(h) == [ type |-> "number", halves |-> h ]

\* !value, for an optional string or id
Falsy(field) == IsNull(field) \/ Val(field) = ""

Respond(status, key, value) == [ status |-> status, key |-> key, value |-> value ]

AuthenticationRequired == Respond(401, "error", "Authentication required")

\* the response when the service threw: the catch block
Handled(done, success) ==
    [ response |-> IF IsNull(done.error) THEN success
                   ELSE Respond(500, "error", Val(done.error)),
      rows |-> done.rows,
      log |-> done.log ]

\* a response sent before any service call
Refused(rows, response) == [ response |-> response, rows |-> rows, log |-> << >> ]

GET(rows, user) ==
    IF IsNull(user) THEN Refused(rows, AuthenticationRequired)
    ELSE LET done == getCartItems(rows, Val(user), Val(user))
         IN  Handled(done, Respond(200, "data", done.data))

\* const { product_id, quantity = 1 } = body
PostQuantity(body) ==
    IF IsNull(body.quantity) THEN Number(Halves(1)) ELSE Val(body.quantity)

\* bug: the body validated before the user is looked up
MutPostRefusal(user, body) ==
    IF Falsy(body.product_id)
    THEN Some(Respond(400, "error", "product_id is required"))
    ELSE IF PostQuantity(body).type # "number"
            \/ PostQuantity(body).halves < Halves(1)
    THEN Some(Respond(400, "error", "quantity must be a positive number"))
    ELSE IF IsNull(user) THEN Some(AuthenticationRequired)
    ELSE Null

\* the early returns of POST, in order; Null when none is taken
PostRefusal(user, body) ==
    IF IsNull(user) THEN Some(AuthenticationRequired)
    ELSE IF Falsy(body.product_id)
    THEN Some(Respond(400, "error", "product_id is required"))
    ELSE IF PostQuantity(body).type # "number"
            \/ PostQuantity(body).halves < Halves(1)
    THEN Some(Respond(400, "error", "quantity must be a positive number"))
    ELSE Null

POST(rows, user, body, id) ==
    IF ~IsNull(PostRefusal(user, body))
    THEN Refused(rows, Val(PostRefusal(user, body)))
    ELSE Handled(addToCart(rows, Val(user), Val(user), Val(body.product_id),
                           PostQuantity(body).halves, id),
                 Respond(201, "message", "Item added to cart"))

\* bug: the quantity only tested for its type
MutPatchRefusal(user, body) ==
    IF IsNull(user) THEN Some(AuthenticationRequired)
    ELSE IF Falsy(body.item_id)
    THEN Some(Respond(400, "error", "item_id is required"))
    ELSE IF IsNull(body.quantity) \/ Val(body.quantity).type # "number"
    THEN Some(Respond(400, "error", "quantity must be a non-negative number"))
    ELSE Null

\* the early returns of PATCH, in order
PatchRefusal(user, body) ==
    IF IsNull(user) THEN Some(AuthenticationRequired)
    ELSE IF Falsy(body.item_id)
    THEN Some(Respond(400, "error", "item_id is required"))
    ELSE IF \/ IsNull(body.quantity)
            \/ Val(body.quantity).type # "number"
            \/ Val(body.quantity).halves < 0
    THEN Some(Respond(400, "error", "quantity must be a non-negative number"))
    ELSE Null

PATCH(rows, user, body) ==
    IF ~IsNull(PatchRefusal(user, body))
    THEN Refused(rows, Val(PatchRefusal(user, body)))
    ELSE Handled(updateCartItem(rows, Val(user), Val(body.item_id), Val(user),
                                Val(body.quantity).halves),
                 Respond(200, "message", "Cart updated"))

\* the early returns of DELETE, in order
DeleteRefusal(user, body) ==
    IF IsNull(user) THEN Some(AuthenticationRequired)
    ELSE IF Falsy(body.item_id)
    THEN Some(Respond(400, "error", "item_id is required"))
    ELSE Null

DELETE(rows, user, body) ==
    IF ~IsNull(DeleteRefusal(user, body))
    THEN Refused(rows, Val(DeleteRefusal(user, body)))
    ELSE Handled(removeCartItem(rows, Val(user), Val(body.item_id), Val(user)),
                 Respond(200, "message", "Item removed from cart"))

-----------------------------------------------------------------------------
(* Inputs of the calls *)

\* CHECK (discount_percentage >= 0 AND discount_percentage <= 100)
MAX_DISCOUNT_PERCENTAGE == 100

\* product prices, in cents
Prices == (0 .. MaxSmallPrice) \cup { 1999, 9999, Dollars(100) }

Percentages == { Null } \cup { Some(p) : p \in 0 .. MAX_DISCOUNT_PERCENTAGE }

\* the fields of Product the engine reads
Products == [ price : Prices, discount_percentage : Percentages ]

Quantities == 1 .. MaxQuantity

\* order totals and taxable amounts, in cents
Totals ==
    (0 .. MaxSmallPrice)
    \cup { Dollars(15), Dollars(40), Dollars(50) - 1, Dollars(50), Dollars(50) + 1,
           Dollars(100) - 1, Dollars(100), Dollars(1000) - 1, Dollars(1000),
           Dollars(1000) + 1 }

TaxRates == { Null, Some(0), Some(5), Some(10), Some(15) }

Codes ==
    { SAVE10,
      << "s", "a", "v", "e", "1", "0" >>,
      << "S", "a", "v", "e", "1", "0" >>,
      << " ", "S", "A", "V", "E", "1", "0", " " >>,
      << "\t", "s", "a", "v", "e", "1", "0", "\n" >>,
      << "S", "A", "V", "E", " ", "1", "0" >>,
      FLAT20,
      << "f", "l", "a", "t", "2", "0" >>,
      WELCOME15,
      << " ", "w", "e", "l", "c", "o", "m", "e", "1", "5" >>,
      << "B", "O", "G", "U", "S" >>,
      << " " >>,
      << >> }

\* cart lines: a discounted bulk line, plain lines below and above the promo
\* minimums, a line that alone reaches the free-shipping threshold and a line
\* ending on a half cent
CartLines ==
    { [ product |-> [ price |-> Dollars(100), discount_percentage |-> Some(10) ],
        quantity |-> 3 ],
      [ product |-> [ price |-> 1999, discount_percentage |-> Null ],
        quantity |-> 1 ],
      [ product |-> [ price |-> Dollars(40), discount_percentage |-> Null ],
        quantity |-> 1 ],
      [ product |-> [ price |-> Dollars(500), discount_percentage |-> Null ],
        quantity |-> 2 ],
      [ product |-> [ price |-> 5, discount_percentage |-> Some(50) ],
        quantity |-> 1 ] }

Carts == UNION { [ 1 .. n -> CartLines ] : n \in 0 .. MaxLines }

\* the promoCode argument: omitted, empty, or a code string
CartCodes ==
    { Null, Some(<< >>), Some(<< " " >>), Some(SAVE10),
      Some(<< "\t", "s", "a", "v", "e", "1", "0", "\n" >>),
      Some(FLAT20), Some(WELCOME15), Some(<< "B", "O", "G", "U", "S" >>) }

Clock == 0 .. MaxNow

\* registry entries with every combination of passing and failing checks:
\* percentage entries of 10, 15 and 100 percent, fixed entries of $0.10 and $20
PromoEntries ==
    [ code : { SAVE10 },
      discount_type : { "percentage" },
      discount_value : { 10, 15, MAX_DISCOUNT_PERCENTAGE },
      min_order_amount : { Null, Some(Dollars(50)) },
      max_uses : { Null, Some(1) },
      current_uses : { 0, 1 },
      active : BOOLEAN,
      expires_at : { Null, Some(1) } ]
    \cup
    [ code : { SAVE10 },
      discount_type : { "fixed" },
      discount_value : { 10, Dollars(20) },
      min_order_amount : { Null, Some(Dollars(50)) },
      max_uses : { Null, Some(1) },
      current_uses : { 0, 1 },
      active : BOOLEAN,
      expires_at : { Null, Some(1) } ]

-----------------------------------------------------------------------------
(* The state machine: one action per exported function *)

\* which way each Math.round of calculateProductPrice takes an exact half cent
Ties == [ product : BOOLEAN, bulk : BOOLEAN, member : BOOLEAN, final : BOOLEAN ]

\* the outcomes open to Math.round(x * 100): two at an exact half cent, else one
SiteTies(x) == IF x % Scale = Scale \div 2 THEN BOOLEAN ELSE { TRUE }

\* the outcomes open to the four Math.round sites of one calculateProductPrice call
TiesFor(product, quantity, isAuthenticated) ==
    [ product :
          SiteTies(IF HasProductDiscount(product)
                   THEN ProductDiscountAmount(product,
                                              OriginalPrice(product, quantity))
                   ELSE 0),
      bulk :
          SiteTies(applyBulkDiscount(BulkBase(product, quantity), quantity)),
      member :
          SiteTies(applyMemberDiscount(MemberBase(product, quantity),
                                       isAuthenticated)),
      final : SiteTies(AfterMember(product, quantity, isAuthenticated)) ]

\* the outcomes open to the Math.round sites of each line of a cart
RECURSIVE LineTies(_, _)
LineTies(items, isAuthenticated) ==
    IF items = << >> THEN { << >> }
    ELSE { << t >> \o rest :
             t \in TiesFor(Head(items).product, Head(items).quantity,
                           isAuthenticated),
             rest \in LineTies(Tail(items), isAuthenticated) }

\* the outcomes open to the Math.round sites of one calculateCartSummary call
CartTies(items, isAuthenticated) ==
    [ lines : LineTies(items, isAuthenticated), promo : BOOLEAN, tax : BOOLEAN ]

Init ==
    /\ PROMO_CODES = InitialPromoCodes
    /\ fn = ""
    /\ args = << >>
    /\ ret = << >>
    /\ currentPrice = << >>
    /\ calls = << >>
    /\ cart_items = { }
    /\ dbLog = << >>
    /\ adds = << >>
    /\ guestCart = << >>
    /\ localStorage = << >>

\* the registry is the built-in one, or holds one entry of any shape
InitAnyRegistry ==
    /\ PROMO_CODES \in { << e >> : e \in PromoEntries } \cup { InitialPromoCodes }
    /\ fn = ""
    /\ args = << >>
    /\ ret = << >>
    /\ currentPrice = << >>
    /\ calls = << >>
    /\ cart_items = { }
    /\ dbLog = << >>
    /\ adds = << >>
    /\ guestCart = << >>
    /\ localStorage = << >>

CalculateProductPrice ==
    /\ fn = ""
    /\ \E product \in Products, quantity \in Quantities, isAuthenticated \in BOOLEAN :
       \E ties \in TiesFor(product, quantity, isAuthenticated) :
        /\ fn' = "calculateProductPrice"
        /\ args' = [ product |-> product, quantity |-> quantity,
                     isAuthenticated |-> isAuthenticated ]
        /\ currentPrice' = << AfterProduct(product, quantity),
                              AfterBulk(product, quantity),
                              AfterMember(product, quantity, isAuthenticated) >>
        /\ ret' = calculateProductPrice(product, quantity, isAuthenticated, ties)
        /\ UNCHANGED << PROMO_CODES, calls >>
        /\ UNCHANGED storeVars

CalculateShipping ==
    /\ fn = ""
    /\ \E total \in Totals :
        /\ fn' = "calculateShipping"
        /\ args' = [ total |-> total ]
        /\ ret' = calculateShipping(total)
        /\ currentPrice' = << >>
        /\ UNCHANGED << PROMO_CODES, calls >>
        /\ UNCHANGED storeVars

CalculateTax ==
    /\ fn = ""
    /\ \E amount \in Totals, taxRate \in TaxRates, up \in BOOLEAN :
        /\ fn' = "calculateTax"
        /\ args' = [ amount |-> amount, taxRate |-> taxRate ]
        /\ ret' = calculateTax(amount, taxRate, up)
        /\ currentPrice' = << >>
        /\ UNCHANGED << PROMO_CODES, calls >>
        /\ UNCHANGED storeVars

\* one call of applyPromoCode
ApplyPromoCodeCall(code, orderTotal, now, up) ==
    /\ fn' = "applyPromoCode"
    /\ args' = [ code |-> code, orderTotal |-> orderTotal, now |-> now ]
    /\ ret' = applyPromoCode(code, orderTotal, now, up)
    /\ currentPrice' = << >>
    /\ PROMO_CODES' = PromoCodesAfterApply(Some(ret'))
    /\ UNCHANGED storeVars

ApplyPromoCode ==
    /\ fn = ""
    /\ \E code \in Codes, orderTotal \in Totals, now \in Clock, up \in BOOLEAN :
        ApplyPromoCodeCall(code, orderTotal, now, up)
    /\ UNCHANGED calls

GetAvailablePromoCodes ==
    /\ fn = ""
    /\ fn' = "getAvailablePromoCodes"
    /\ args' = << >>
    /\ ret' = getAvailablePromoCodes
    /\ currentPrice' = << >>
    /\ UNCHANGED << PROMO_CODES, calls >>
    /\ UNCHANGED storeVars

\* one call of calculateCartSummary, applyPromoCode within it included
CalculateCartSummaryCall(items, isAuthenticated, promoCode, now, fp) ==
    /\ fn' = "calculateCartSummary"
    /\ args' = [ items |-> items, isAuthenticated |-> isAuthenticated,
                 promoCode |-> promoCode, now |-> now ]
    /\ ret' = calculateCartSummary(items, isAuthenticated, promoCode, now, fp)
    /\ currentPrice' = << >>
    /\ PROMO_CODES' = PromoCodesAfterApply(ret'.promoResult)
    /\ UNCHANGED storeVars

CalculateCartSummary ==
    /\ fn = ""
    /\ \E items \in Carts, isAuthenticated \in BOOLEAN, promoCode \in CartCodes,
          now \in Clock :
       \E fp \in CartTies(items, isAuthenticated) :
        CalculateCartSummaryCall(items, isAuthenticated, promoCode, now, fp)
    /\ UNCHANGED calls

\* the call returns: the caller takes the result and the engine keeps nothing of it
Return ==
    /\ fn # ""
    /\ fn' = ""
    /\ args' = << >>
    /\ ret' = << >>
    /\ currentPrice' = << >>
    /\ dbLog' = << >>
    /\ UNCHANGED << PROMO_CODES, calls, cart_items, adds, guestCart, localStorage >>

Next ==
    \/ CalculateProductPrice
    \/ CalculateShipping
    \/ CalculateTax
    \/ ApplyPromoCode
    \/ GetAvailablePromoCodes
    \/ Return

Spec == Init /\ [][Next]_vars

NextPromo ==
    \/ ApplyPromoCode
    \/ GetAvailablePromoCodes
    \/ Return

SpecAnyRegistry == InitAnyRegistry /\ [][NextPromo]_vars

NextCart ==
    \/ CalculateCartSummary
    \/ Return

SpecCart == Init /\ [][NextCart]_vars

\* single lines and whole carts
NextPricing ==
    \/ CalculateProductPrice
    \/ CalculateCartSummary
    \/ Return

SpecPricing == Init /\ [][NextPricing]_vars

\* Repeated calls: a caller keeps the last two summaries it was given

BulkLine ==
    [ product |-> [ price |-> Dollars(100), discount_percentage |-> Some(10) ],
      quantity |-> 3 ]

PlainLine ==
    [ product |-> [ price |-> Dollars(40), discount_percentage |-> Null ],
      quantity |-> 1 ]

RepeatCarts == { << >>, << BulkLine >>, << BulkLine, PlainLine >> }

RepeatCodes == { Null, Some(WELCOME15), Some(SAVE10) }

\* the half cents of the promo percentage and of the tax fall the same way
RepeatTies(items, isAuthenticated) ==
    { fp \in CartTies(items, isAuthenticated) : fp.promo = fp.tax }

Remember(kept, call) ==
    IF Len(kept) < 2 THEN Append(kept, call) ELSE << kept[2], call >>

RepeatCartSummary ==
    /\ fn = ""
    /\ \E items \in RepeatCarts, isAuthenticated \in BOOLEAN,
          promoCode \in RepeatCodes, now \in Clock :
       \E fp \in RepeatTies(items, isAuthenticated) :
        /\ CalculateCartSummaryCall(items, isAuthenticated, promoCode, now, fp)
        /\ calls' = Remember(calls,
                        [ items |-> items, isAuthenticated |-> isAuthenticated,
                          promoCode |-> promoCode, fp |-> fp, ret |-> ret' ])

\* another engine call made between two summaries
OtherApplyPromoCode ==
    /\ fn = ""
    /\ \E code \in { WELCOME15, SAVE10, FLAT20 },
          orderTotal \in { Dollars(50), Dollars(100) }, now \in Clock :
        ApplyPromoCodeCall(code, orderTotal, now, TRUE)
    /\ UNCHANGED calls

NextRepeat ==
    \/ RepeatCartSummary
    \/ OtherApplyPromoCode
    \/ GetAvailablePromoCodes
    \/ Return

SpecRepeat == Init /\ [][NextRepeat]_vars

\* Repeated applications of promo codes: a caller keeps two of the results

UseCodes ==
    { WELCOME15, << "w", "e", "l", "c", "o", "m", "e", "1", "5" >>, SAVE10, FLAT20 }

UseTotals == { Dollars(40), Dollars(50), Dollars(100) }

UseApplyPromoCode ==
    /\ fn = ""
    /\ \E code \in UseCodes, orderTotal \in UseTotals, now \in Clock :
        /\ ApplyPromoCodeCall(code, orderTotal, now, TRUE)
        /\ calls' \in { calls,
                        Remember(calls, [ orderTotal |-> orderTotal, ret |-> ret' ]) }

\* the application made inside calculateCartSummary
UseCartSummary ==
    /\ fn = ""
    /\ \E items \in RepeatCarts, isAuthenticated \in BOOLEAN,
          promoCode \in { Some(WELCOME15), Some(SAVE10) }, now \in Clock :
       \E fp \in RepeatTies(items, isAuthenticated) :
        /\ CalculateCartSummaryCall(items, isAuthenticated, promoCode, now, fp)
        /\ calls' \in { calls,
                        Remember(calls, [ orderTotal |-> LinesTotal(ret'.items),
                                          ret |-> Val(ret'.promoResult) ]) }

NextUses ==
    \/ UseApplyPromoCode
    \/ UseCartSummary
    \/ Return

SpecUses == Init /\ [][NextUses]_vars

-----------------------------------------------------------------------------
(* Requests to /api/cart, handled one at a time *)

\* getAuthenticatedUser(): the user of the session, or null
Sessions == { Null } \cup { Some(u) : u \in Users }

\* values the quantity field of a JSON body can hold
JsonQuantities ==
    { [ type |-> "string" ], [ type |-> "null" ] }
        \cup { Number(h) : h \in { -2, 0, 1, 3 } }
        \cup { Number(Halves(n)) : n \in 1 .. MaxCartQuantity }

\* "px" is the id of no product
PostBodies ==
    [ product_id : { Null, Some(""), Some("p1"), Some("p2"), Some("px") },
      quantity : { Null } \cup { Some(q) : q \in JsonQuantities } ]

PatchBodies ==
    [ item_id : { Null } \cup { Some(i) : i \in ItemIds },
      quantity : { Null } \cup { Some(q) : q \in JsonQuantities } ]

DeleteBodies == [ item_id : { Null } \cup { Some(i) : i \in ItemIds } ]

\* the stored quantities the model follows
WithinCartBound(rows) == \A r \in rows : r.quantity <= Halves(MaxCartQuantity)

Handle(name, user, body, handled) ==
    /\ WithinCartBound(handled.rows)
    /\ fn' = name
    /\ args' = [ user |-> user, body |-> body ]
    /\ ret' = handled.response
    /\ cart_items' = handled.rows
    /\ dbLog' = handled.log
    /\ UNCHANGED << PROMO_CODES, currentPrice, calls, adds, guestCart, localStorage >>

Get ==
    /\ fn = ""
    /\ \E user \in Sessions :
          Handle("GET", user, << >>, GET(cart_items, user))

Post ==
    /\ fn = ""
    /\ \E user \in Sessions, body \in PostBodies :
          Handle("POST", user, body, POST(cart_items, user, body, FreshId(cart_items)))

Patch ==
    /\ fn = ""
    /\ \E user \in Sessions, body \in PatchBodies :
          Handle("PATCH", user, body, PATCH(cart_items, user, body))

Delete ==
    /\ fn = ""
    /\ \E user \in Sessions, body \in DeleteBodies :
          Handle("DELETE", user, body, DELETE(cart_items, user, body))

NextApi ==
    \/ Get
    \/ Post
    \/ Patch
    \/ Delete
    \/ Return

SpecApi == Init /\ [][NextApi]_vars

-----------------------------------------------------------------------------
(* Two addToCart calls in flight for the same user and product.  Each call  *)
(* is two statements, the select and then the update or insert, and the     *)
(* statements of the two calls reach the table in any order.                *)

\* a call of addToCart(userId, productId, quantity) about to send its select;
\* started is the quantity the table held for the product when it was made
AddCall(userId, productId, quantity, started) ==
    [ userId |-> userId, productId |-> productId, quantity |-> quantity,
      started |-> started, pc |-> "select", existing |-> Null, error |-> Null ]

\* the quantity rows hold for (user, product); 0 when there is no row
Stored(rows, userId, productId) ==
    LET found == { r \in rows : r.user_id = userId /\ r.product_id = productId }
    IN  IF found = { } THEN 0 ELSE (CHOOSE r \in found : TRUE).quantity

InitRace ==
    /\ PROMO_CODES = InitialPromoCodes
    /\ fn = ""
    /\ args = << >>
    /\ ret = << >>
    /\ currentPrice = << >>
    /\ calls = << >>
    /\ dbLog = << >>
    /\ guestCart = << >>
    /\ localStorage = << >>
    /\ \E userId \in Users, productId \in ProductIds :
          /\ cart_items \in
                { { } } \cup
                { { [ id |-> "i1", user_id |-> userId, product_id |-> productId,
                      quantity |-> Halves(n) ] } : n \in 1 .. MaxCartQuantity }
          /\ \E a, b \in 1 .. MaxCartQuantity :
                adds = << AddCall(userId, productId, Halves(a),
                                  Stored(cart_items, userId, productId)),
                          AddCall(userId, productId, Halves(b),
                                  Stored(cart_items, userId, productId)) >>

\* const { data: existing } = await ...select("id, quantity")...single()
SelectOf(i) ==
    /\ adds[i].pc = "select"
    /\ adds' = [ adds EXCEPT
                   ![i].existing = DbSelectSingle(cart_items, adds[i].userId,
                                                  adds[i].userId, adds[i].productId),
                   ![i].pc = "write" ]
    /\ dbLog' = Append(dbLog, "select")
    /\ UNCHANGED << PROMO_CODES, fn, args, ret, currentPrice, calls, cart_items,
                    guestCart, localStorage >>

\* if (existing) update({ quantity: existing.quantity + quantity }) else insert
WriteOf(i) ==
    /\ adds[i].pc = "write"
    /\ LET done == AddToCartWrite(cart_items, adds[i].userId, adds[i].existing,
                                  adds[i].userId, adds[i].productId,
                                  adds[i].quantity, FreshId(cart_items))
       IN  /\ cart_items' = done.rows
           /\ adds' = [ adds EXCEPT ![i].error = done.error, ![i].pc = "done" ]
           /\ dbLog' = dbLog \o done.log
    /\ UNCHANGED << PROMO_CODES, fn, args, ret, currentPrice, calls,
                    guestCart, localStorage >>

\* either call takes its next step
AddSelect == \E i \in DOMAIN adds : SelectOf(i)

AddWrite == \E i \in DOMAIN adds : WriteOf(i)

NextRace ==
    \/ AddSelect
    \/ AddWrite

SpecRace == InitRace /\ [][NextRace]_vars

-----------------------------------------------------------------------------
(* The guest cart of CartProvider.  guestCart is the React state, a list   *)
(* of { product_id, quantity }; localStorage is the value under the key     *)
(* "neto-guest-cart" (Null: no such key), the list as JSON text, modelled   *)
(* as the list of its << product_id, quantity >> pairs.                     *)

JsonStringify(cart) ==
    [ i \in 1 .. Len(cart) |-> << cart[i].product_id, cart[i].quantity >> ]

JsonParse(text) ==
    [ i \in 1 .. Len(text) |-> [ product_id |-> text[i][1], quantity |-> text[i][2] ] ]

\* prev.find((item) => item.product_id === productId)
InGuestCart(prev, productId) ==
    \E i \in 1 .. Len(prev) : prev[i].product_id = productId

\* bug: the product appended whether or not the cart holds it
MutAddToGuestCart(prev, productId, quantity) ==
    Append(prev, [ product_id |-> productId, quantity |-> quantity ])

addToGuestCart(prev, productId, quantity) ==
    IF InGuestCart(prev, productId)
    THEN [ i \in 1 .. Len(prev) |->
             IF prev[i].product_id = productId
             THEN [ prev[i] EXCEPT !.quantity = @ + quantity ]
             ELSE prev[i] ]
    ELSE Append(prev, [ product_id |-> productId, quantity |-> quantity ])

removeFromGuestCart(prev, productId) ==
    SelectSeq(prev, LAMBDA item : item.product_id # productId)

updateGuestCartItem(prev, productId, quantity) ==
    IF quantity <= 0 THEN removeFromGuestCart(prev, productId)
    ELSE [ i \in 1 .. Len(prev) |->
             IF prev[i].product_id = productId
             THEN [ prev[i] EXCEPT !.quantity = quantity ]
             ELSE prev[i] ]

\* the quantities the cart page and the add-to-cart button pass: whole numbers
GuestQuantities == -1 .. MaxCartQuantity

\* the products a guest can name: those of the catalogue and one more
GuestProductIds == ProductIds \cup { "p3" }

\* setGuestCart(next), then the effect that saves the new state
SetGuestCart(name, arguments, next) ==
    /\ \A i \in 1 .. Len(next) : next[i].quantity <= MaxCartQuantity
    /\ fn' = name
    /\ args' = arguments
    /\ ret' = << >>
    /\ guestCart' = next
    /\ localStorage' = Some(JsonStringify(next))
    /\ UNCHANGED << PROMO_CODES, currentPrice, calls, cart_items, dbLog, adds >>

\* the provider mounts: the state starts empty and is loaded from localStorage
Mount ==
    /\ fn = ""
    /\ SetGuestCart("CartProvider", << >>,
                    IF IsNull(localStorage) THEN << >>
                    ELSE JsonParse(Val(localStorage)))

AddToGuestCart ==
    /\ fn = ""
    /\ \E productId \in GuestProductIds, quantity \in GuestQuantities :
          /\ quantity >= 1
          /\ SetGuestCart("addToGuestCart",
                          [ productId |-> productId, quantity |-> quantity ],
                          addToGuestCart(guestCart, productId, quantity))

UpdateGuestCartItem ==
    /\ fn = ""
    /\ \E productId \in GuestProductIds, quantity \in GuestQuantities :
          SetGuestCart("updateGuestCartItem",
                       [ productId |-> productId, quantity |-> quantity ],
                       updateGuestCartItem(guestCart, productId, quantity))

RemoveFromGuestCart ==
    /\ fn = ""
    /\ \E productId \in GuestProductIds :
          SetGuestCart("removeFromGuestCart", [ productId |-> productId ],
                       removeFromGuestCart(guestCart, productId))

\* setGuestCart([]) and removeItem; the new state is then saved by the effect
ClearGuestCart ==
    /\ fn = ""
    /\ SetGuestCart("clearGuestCart", << >>, << >>)

NextGuest ==
    \/ Mount
    \/ AddToGuestCart
    \/ UpdateGuestCartItem
    \/ RemoveFromGuestCart
    \/ ClearGuestCart
    \/ Return

SpecGuest == Init /\ [][NextGuest]_vars

-----------------------------------------------------------------------------
(* Properties of calculateProductPrice *)

Priced == fn = "calculateProductPrice"

\* the percentage the product discount takes, 0 when rule 1 does not apply
PctOf(product) ==
    IF ~IsNull(product.discount_percentage) /\ Val(product.discount_percentage) > 0
    THEN Val(product.discount_percentage)
    ELSE 0

EntriesOfType(discounts, type) ==
    { i \in DOMAIN discounts : discounts[i].type = type }

\* C1: the discounts apply in the order product, bulk, member, each to the
\* running price: after rule 1 the price is price*quantity*(1 - pct/100), after
\* rule 2 that times 0.90 when quantity >= 3, after rule 3 that times 0.95 when
\* authenticated.  (In units of 1/Scale cent, Scale = 100 * 10 * 20, the
\* factors are (100 - pct), 9 of 10 and 19 of 20.)
C1_SequentialDiscounts ==
    Priced =>
        LET line == args.product.price * args.quantity
            product == 100 - PctOf(args.product)
            bulk == IF args.quantity >= 3 THEN 9 ELSE 10
            member == IF args.isAuthenticated THEN 19 ELSE 20
        IN  /\ currentPrice[1] = line * product * 10 * 20
            /\ currentPrice[2] = line * product * bulk * 20
            /\ currentPrice[3] = line * product * bulk * member

C1_Witness ==
    /\ Priced
    /\ PctOf(args.product) = 15
    /\ args.quantity = 3
    /\ args.isAuthenticated
    /\ args.product.price = 1999
    /\ currentPrice[3] < currentPrice[2]
    /\ currentPrice[2] < currentPrice[1]

C2_Line ==
    /\ Priced
    /\ args.product.price = 10000
    /\ args.product.discount_percentage = Some(10)
    /\ args.quantity = 3
    /\ args.isAuthenticated

\* C2 as stated: $100 at 10% off, quantity 3, authenticated runs
\* $90 -> $81 -> $76.95 and returns finalPrice 76.95.
C2_AsStated ==
    C2_Line =>
        /\ currentPrice = << 9000 * Scale, 8100 * Scale, 7695 * Scale >>
        /\ ret.finalPrice = 7695

\* C2 amended: the line starts from originalPrice = 100 * 3 = $300 and runs
\* $270 -> $243 -> $230.85; finalPrice is 230.85.
C2_LineOfThree ==
    C2_Line =>
        /\ ret.originalPrice = 30000
        /\ currentPrice = << 27000 * Scale, 24300 * Scale, 23085 * Scale >>
        /\ ret.finalPrice = 23085

C2_Witness == C2_Line /\ ret.totalDiscount = 6915

\* C3: no product discount, quantity 1, not authenticated: finalPrice equals
\* originalPrice, totalDiscount is 0 and the discounts list is empty.
C3_NoDiscount ==
    ( /\ Priced
      /\ IsNull(args.product.discount_percentage)
      /\ args.quantity = 1
      /\ ~args.isAuthenticated )
    => /\ ret.finalPrice = ret.originalPrice
       /\ ret.finalPrice = args.product.price
       /\ ret.totalDiscount = 0
       /\ ret.discounts = << >>

C3_Witness ==
    /\ Priced
    /\ IsNull(args.product.discount_percentage)
    /\ args.quantity = 1
    /\ ~args.isAuthenticated
    /\ ret.finalPrice = 1999

HasBulkEntry ==
    \E i \in DOMAIN ret.discounts :
        ret.discounts[i].type = "bulk" /\ ret.discounts[i].percentage = 10

\* C4 as stated: every call with quantity >= 3 returns a bulk entry with
\* percentage 10, whatever the product.
C4_AsStated == (Priced /\ args.quantity >= 3) => HasBulkEntry

\* C4 amended: with quantity >= 3 a bulk entry with percentage 10 is returned
\* when the price left by the product discount is positive (price > 0 and
\* discount_percentage below 100); when that price is 0 there is no bulk entry.
C4_BulkEntry ==
    (Priced /\ args.quantity >= 3) =>
        /\ (args.product.price > 0 /\ PctOf(args.product) < 100) => HasBulkEntry
        /\ (args.product.price = 0 \/ PctOf(args.product) = 100)
               => EntriesOfType(ret.discounts, "bulk") = {}

C4_Witness ==
    /\ Priced
    /\ args.quantity = 3
    /\ args.product.price > 0
    /\ PctOf(args.product) = 50
    /\ HasBulkEntry

\* C5 as stated: every authenticated call returns a member entry with
\* percentage 5 whose amount is 5% of the price left by rules 1 and 2.
C5_AsStated ==
    (Priced /\ args.isAuthenticated) =>
        \E i \in DOMAIN ret.discounts :
            /\ ret.discounts[i].type = "member"
            /\ ret.discounts[i].percentage = 5
            /\ ret.discounts[i].amount * Scale * 20 = currentPrice[2]

\* C5 amended: an authenticated call returns a member entry with percentage 5
\* when the price left by the product and bulk discounts is positive, and its
\* amount is 5% of that price rounded to the cent; when that price is 0 there
\* is no member entry.
C5_MemberEntry ==
    (Priced /\ args.isAuthenticated) =>
        /\ (args.product.price > 0 /\ PctOf(args.product) < 100) =>
              \E i \in DOMAIN ret.discounts :
                  /\ ret.discounts[i].type = "member"
                  /\ ret.discounts[i].percentage = 5
                  /\ LET bulk == IF args.quantity >= 3 THEN 9 ELSE 10
                         \* 20 * (5% of the price left), in units of 1/Scale cent
                         left == args.product.price * args.quantity
                                    * (100 - PctOf(args.product)) * bulk * 20
                         \* 20 * (the amount - 5% of the price left): within
                         \* half a cent
                         diff == ret.discounts[i].amount * Scale * 20 - left
                     IN  diff >= -(Scale * 10) /\ diff <= Scale * 10
        /\ (args.product.price = 0 \/ PctOf(args.product) = 100)
               => EntriesOfType(ret.discounts, "member") = {}

C5_Witness ==
    /\ Priced
    /\ args.isAuthenticated
    /\ args.quantity = 3
    /\ args.product.price = 1999
    /\ PctOf(args.product) = 15
    /\ \E i \in DOMAIN ret.discounts :
           ret.discounts[i].type = "member" /\ ret.discounts[i].amount = 229

\* C6: finalPrice = originalPrice - totalDiscount, in whole cents.
C6_FinalIsOriginalMinusDiscount ==
    Priced =>
        /\ ret.finalPrice = ret.originalPrice - ret.totalDiscount
        /\ ret.originalPrice = args.product.price * args.quantity

\* a line whose running price ends on a half cent
C6_Witness ==
    /\ Priced
    /\ currentPrice[3] % Scale = Scale \div 2
    /\ ret.totalDiscount > 0

\* C7: totalDiscount >= 0, that is finalPrice <= originalPrice.
C7_TotalDiscountNonNegative ==
    Priced => ret.totalDiscount >= 0 /\ ret.finalPrice <= ret.originalPrice

C7_Witness ==
    /\ Priced
    /\ Len(ret.discounts) = 3
    /\ ret.totalDiscount > 0

-----------------------------------------------------------------------------
(* Properties of calculateShipping and calculateTax *)

\* C8: shipping is free exactly when the total is strictly above $1000;
\* $1000.00 costs the flat 15, $1000.01 is free; the cost is 0 or 15, 0 iff
\* free; the threshold reported is 1000.
C8_FreeShippingStrictlyAbove ==
    fn = "calculateShipping" =>
        /\ ret.isFreeShipping <=> args.total > 100000
        /\ ret.cost \in { 0, 1500 }
        /\ ret.cost = 0 <=> ret.isFreeShipping
        /\ ret.freeShippingThreshold = 100000
        /\ args.total = 100000 => ret.cost = 1500
        /\ args.total = 100001 => ret.cost = 0

C8_Witness ==
    /\ fn = "calculateShipping"
    /\ args.total = 100000
    /\ ~ret.isFreeShipping

\* C9: the tax is amount * rate / 100 to the nearest cent and the rate
\* returned is the rate used, 10 when none is passed.
C9_TaxRoundedToCent ==
    fn = "calculateTax" =>
        LET rate == IF IsNull(args.taxRate) THEN 10 ELSE Val(args.taxRate)
            \* 100 * (the tax returned - the exact tax), in cents
            diff == 100 * ret.amount - args.amount * rate
        IN  /\ ret.rate = rate
            /\ diff >= -50 /\ diff <= 50

\* the default rate on an amount whose tenth is not a whole cent
C9_Witness ==
    /\ fn = "calculateTax"
    /\ IsNull(args.taxRate)
    /\ args.amount = 4999
    /\ ret.amount = 500

-----------------------------------------------------------------------------
(* Properties of applyPromoCode *)

Applied == fn = "applyPromoCode"

\* the registry entries whose code is the normalized argument
Matching == { i \in DOMAIN PROMO_CODES : PROMO_CODES[i].code = ret.code }

IsInactive(p) == p.active = FALSE

IsExpired(p) == p.expires_at # Null /\ p.expires_at[1] < args.now

IsUsedUp(p) == p.max_uses # Null /\ p.current_uses >= p.max_uses[1]

IsBelowMinimum(p) ==
    p.min_order_amount # Null /\ args.orderTotal < p.min_order_amount[1]

\* C10: the checks run in the order not found, inactive, expired, usage limit,
\* minimum order, and the error returned is that of the first one that fails.
C10_FirstFailingCheckWins ==
    Applied =>
        /\ Matching = {} => ret.error = << "Invalid promo code" >>
        /\ \A i \in Matching :
             LET p == PROMO_CODES[i] IN
             /\ IsInactive(p)
                  => ret.error = << "This promo code is no longer active" >>
             /\ (~IsInactive(p) /\ IsExpired(p))
                  => ret.error = << "This promo code has expired" >>
             /\ (~IsInactive(p) /\ ~IsExpired(p) /\ IsUsedUp(p))
                  => ret.error = << "This promo code has reached its usage limit" >>
             /\ (~IsInactive(p) /\ ~IsExpired(p) /\ ~IsUsedUp(p) /\ IsBelowMinimum(p))
                  => /\ ret.error[1] = "Minimum order of $"
                     /\ ret.error[2] = << p.min_order_amount[1] \div 100,
                                          p.min_order_amount[1] % 100 >>
             /\ (~IsInactive(p) /\ ~IsExpired(p) /\ ~IsUsedUp(p) /\ ~IsBelowMinimum(p))
                  => ret.valid

\* an active entry that is expired, at its usage limit and below its minimum order
C10_Witness ==
    /\ Applied
    /\ \E i \in Matching :
         /\ ~IsInactive(PROMO_CODES[i])
         /\ IsExpired(PROMO_CODES[i])
         /\ IsUsedUp(PROMO_CODES[i])
         /\ IsBelowMinimum(PROMO_CODES[i])
    /\ ret.error = << "This promo code has expired" >>


\* what trim() and toUpperCase() are to make of each code string of the model
ExpectedCode(code) ==
    CASE code = << "s", "a", "v", "e", "1", "0" >> -> SAVE10
      [] code = << "S", "a", "v", "e", "1", "0" >> -> SAVE10
      [] code = << " ", "S", "A", "V", "E", "1", "0", " " >> -> SAVE10
      [] code = << "\t", "s", "a", "v", "e", "1", "0", "\n" >> -> SAVE10
      [] code = << "f", "l", "a", "t", "2", "0" >> -> FLAT20
      [] code = << " ", "w", "e", "l", "c", "o", "m", "e", "1", "5" >> -> WELCOME15
      [] code = << " " >> -> << >>
      [] OTHER -> code

\* C11: the lookup ignores case and surrounding white space: the code returned
\* is the trimmed upper-cased form, and every code string with the same form
\* gives the same result for the same order total.
C11_CaseAndSpaceInsensitive ==
    Applied =>
        /\ ret.code = ExpectedCode(args.code)
        /\ \A other \in Codes :
               ExpectedCode(other) = ExpectedCode(args.code) =>
                   \E up \in BOOLEAN :
                       ret = applyPromoCode(other, args.orderTotal, args.now, up)

C11_Witness ==
    /\ Applied
    /\ args.code = << "\t", "s", "a", "v", "e", "1", "0", "\n" >>
    /\ args.orderTotal = 10000
    /\ ret.valid
    /\ ret.code = SAVE10

IsMinimumOrderError(error, cents) ==
    /\ Len(error) = 3
    /\ error[1] = "Minimum order of $"
    /\ error[2] = << cents \div 100, cents % 100 >>

C12_Call == Applied /\ ExpectedCode(args.code) = SAVE10

\* C12 as stated: SAVE10 is refused with the minimum-order error below $50 and
\* from $50 on is valid with a discount_amount that is 10% of the order total.
C12_AsStated ==
    C12_Call =>
        /\ args.orderTotal < 5000 =>
               ~ret.valid /\ IsMinimumOrderError(ret.error, 5000)
        /\ args.orderTotal >= 5000 =>
               ret.valid /\ ret.discount_amount * 10 = args.orderTotal

\* C12 amended: from $50 on the discount_amount is 10% of the order total
\* rounded to the nearest cent.
C12_Save10 ==
    C12_Call =>
        /\ args.orderTotal < 5000 =>
               /\ ~ret.valid
               /\ ret.discount_amount = 0
               /\ IsMinimumOrderError(ret.error, 5000)
        /\ args.orderTotal >= 5000 =>
               /\ ret.valid
               /\ ret.discount_amount * 100 - args.orderTotal * 10 >= -50
               /\ ret.discount_amount * 100 - args.orderTotal * 10 <= 50

\* the boundary: an order of exactly $50
C12_Witness ==
    /\ C12_Call
    /\ args.orderTotal = 5000
    /\ ret.valid
    /\ ret.discount_amount = 500

C13_Call == Applied /\ ExpectedCode(args.code) = FLAT20

\* C13 as stated: FLAT20 on an order of $15 gives discount_amount 15.00.
C13_AsStated ==
    (C13_Call /\ args.orderTotal = 1500) =>
        ret.valid /\ ret.discount_amount = 1500

\* C13 amended: FLAT20 has a minimum order of $100, so an order of $15 (any
\* order below $100) is refused with the minimum-order error and
\* discount_amount 0; an order of $100 or more gets the full 20.00.
C13_Flat20 ==
    C13_Call =>
        /\ args.orderTotal < 10000 =>
               /\ ~ret.valid
               /\ ret.discount_amount = 0
               /\ IsMinimumOrderError(ret.error, 10000)
        /\ args.orderTotal >= 10000 =>
               ret.valid /\ ret.discount_amount = 2000

C13_Witness ==
    /\ C13_Call
    /\ args.orderTotal = 1500
    /\ ~ret.valid
    /\ ret.discount_amount = 0

\* C14: a code that passes validation gives, for the percentage type,
\* orderTotal * value / 100 to the nearest cent and, for the fixed type, the
\* smaller of value and orderTotal; so 0 <= discount_amount <= orderTotal.
C14_DiscountAmount ==
    (Applied /\ ret.valid) =>
        /\ \A i \in Matching :
               LET p == PROMO_CODES[i] IN
               /\ p.discount_type = "percentage" =>
                      LET diff == ret.discount_amount * 100
                                     - args.orderTotal * p.discount_value
                      IN  diff >= -50 /\ diff <= 50
               /\ p.discount_type = "fixed" =>
                      /\ ret.discount_amount <= p.discount_value
                      /\ ret.discount_amount <= args.orderTotal
                      /\ ret.discount_amount \in { p.discount_value, args.orderTotal }
        /\ ret.discount_amount >= 0
        /\ ret.discount_amount <= args.orderTotal

\* a fixed amount larger than the order it is applied to
C14_Witness ==
    /\ Applied
    /\ ret.valid
    /\ \E i \in Matching :
           /\ PROMO_CODES[i].discount_type = "fixed"
           /\ PROMO_CODES[i].discount_value > args.orderTotal
    /\ args.orderTotal = 1500
    /\ ret.discount_amount = 1500

\* C15: applyPromoCode answers every code and order total with a PromoResult;
\* the result carries an error exactly when valid is false, and then
\* discount_amount is 0.
C15_ErrorIffInvalid ==
    Applied =>
        /\ { "valid", "code", "discount_amount" } \subseteq DOMAIN ret
        /\ DOMAIN ret \subseteq { "valid", "code", "discount_amount", "error" }
        /\ ret.valid \in BOOLEAN
        /\ ret.valid = FALSE <=> "error" \in DOMAIN ret
        /\ "error" \in DOMAIN ret => ret.discount_amount = 0

C15_Witness ==
    /\ Applied
    /\ ~ret.valid
    /\ ret.error = << "This promo code has reached its usage limit" >>
    /\ ret.discount_amount = 0

-----------------------------------------------------------------------------
(* Properties of calculateCartSummary *)

Summarised == fn = "calculateCartSummary"

\* the sum of the finalPrice of the lines returned
SumFinal ==
    Sum([ i \in 1 .. Len(ret.items) |-> ret.items[i].pricing.finalPrice ])

\* a code was passed: neither omitted nor the empty string
CodeGiven == args.promoCode # Null /\ args.promoCode # Some(<< >>)

PromoValid == ret.promoResult # Null /\ Val(ret.promoResult).valid

\* C16: a supplied promo code is validated against the sum of the lines'
\* finalPrice; when it is valid exactly one promo entry is appended to
\* discounts and its amount is subtracted from totalAfterDiscounts; when it
\* is invalid, omitted or empty there is no promo entry and
\* totalAfterDiscounts, tax, shipping and total are those of the same call
\* without a promo code.
C16_PromoInSummary ==
    Summarised =>
        LET promos == EntriesOfType(ret.discounts, "promo") IN
        /\ CodeGiven =>
              /\ ret.promoResult # Null
              /\ \E up \in BOOLEAN :
                    Val(ret.promoResult) =
                        applyPromoCode(Val(args.promoCode), SumFinal, args.now, up)
        /\ ~CodeGiven => ret.promoResult = Null
        /\ PromoValid =>
              /\ promos = { Len(ret.discounts) }
              /\ ret.discounts[Len(ret.discounts)].amount =
                     Val(ret.promoResult).discount_amount
              /\ ret.totalAfterDiscounts =
                     SumFinal - Val(ret.promoResult).discount_amount
        /\ ~PromoValid =>
              /\ promos = { }
              /\ \E fp \in CartTies(args.items, args.isAuthenticated) :
                    \* without a code no promo percentage is rounded
                    /\ fp.promo
                    /\ LET plain == calculateCartSummary(args.items,
                                     args.isAuthenticated, Null, args.now, fp)
                       IN
                        /\ plain.items = ret.items
                        /\ plain.totalAfterDiscounts = ret.totalAfterDiscounts
                        /\ plain.tax = ret.tax
                        /\ plain.shipping = ret.shipping
                        /\ plain.total = ret.total

\* SAVE10 on a discounted bulk line: 10% of the $230.85 the line comes to,
\* not of its $300 list price
C16_Witness ==
    /\ Summarised
    /\ PromoValid
    /\ Len(ret.items) = 1
    /\ ret.subtotal = 30000
    /\ SumFinal = 23085
    /\ Val(ret.promoResult).discount_amount \in { 2308, 2309 }
    /\ Cardinality(EntriesOfType(ret.discounts, "promo")) = 1

\* C17: tax and shipping are both computed from the post-promo
\* totalAfterDiscounts: the tax is 10% of it to the nearest cent and shipping
\* is free exactly when it exceeds $1000, whatever the tax is.
C17_TaxAndShippingSameBase ==
    Summarised =>
        LET base == ret.totalAfterDiscounts
            diff == 100 * ret.tax.amount - base * 10
        IN  /\ ret.tax.rate = 10
            /\ diff >= -50 /\ diff <= 50
            /\ ret.shipping.isFreeShipping <=> base > 100000
            /\ ret.shipping.cost = IF base > 100000 THEN 0 ELSE 1500
            /\ \E up \in BOOLEAN : ret.tax = calculateTax(base, Null, up)
            /\ ret.shipping = calculateShipping(base)

\* $1040 of lines, $936 after SAVE10: above $1000 before the promo and with
\* the tax, yet shipping is charged
C17_Witness ==
    /\ Summarised
    /\ PromoValid
    /\ SumFinal = 104000
    /\ ret.totalAfterDiscounts = 93600
    /\ ret.totalAfterDiscounts + ret.tax.amount > 100000
    /\ ~ret.shipping.isFreeShipping
    /\ ret.shipping.cost = 1500

\* C18: subtotal is the sum of the lines' originalPrice (price * quantity),
\* itemCount the sum of the quantities, totalAfterDiscounts the sum of the
\* lines' finalPrice less the valid promo amount, total is
\* totalAfterDiscounts + tax.amount + shipping.cost; an empty cart has
\* subtotal 0, itemCount 0 and total 15.
C18_SummaryTotals ==
    Summarised =>
        LET n == Len(args.items) IN
        /\ Len(ret.items) = n
        /\ ret.subtotal =
              Sum([ i \in 1 .. n |->
                      args.items[i].product.price * args.items[i].quantity ])
        /\ ret.subtotal =
              Sum([ i \in 1 .. n |-> ret.items[i].pricing.originalPrice ])
        /\ ret.itemCount = Sum([ i \in 1 .. n |-> args.items[i].quantity ])
        /\ ret.totalAfterDiscounts =
              SumFinal - (IF PromoValid
                          THEN Val(ret.promoResult).discount_amount ELSE 0)
        /\ ret.total =
              ret.totalAfterDiscounts + ret.tax.amount + ret.shipping.cost
        /\ n = 0 =>
              /\ ret.subtotal = 0
              /\ ret.itemCount = 0
              /\ ret.total = 1500

\* two lines, $19.99 and $40: FLAT20 refused, SAVE10 takes $6.00
C18_Witness ==
    /\ Summarised
    /\ Len(ret.items) = 2
    /\ ret.subtotal = 5999
    /\ ret.itemCount = 2
    /\ PromoValid
    /\ ret.totalAfterDiscounts = 5399
    /\ ret.tax.amount = 540
    /\ ret.total = 5399 + 540 + 1500

-----------------------------------------------------------------------------
(* Repeated calls and the registry *)

SameInputs(a, b) ==
    /\ a.items = b.items
    /\ a.isAuthenticated = b.isAuthenticated
    /\ a.promoCode = b.promoCode
    /\ a.fp = b.fp

\* C19: calculateCartSummary is deterministic and leaves no trace: two calls
\* with the same lines, authenticated flag and promo code return the same
\* summary, whatever the clock reads and whatever engine calls were made in
\* between.  (The direction Math.round takes at an exact half cent is a
\* function of the inputs, so both calls take the same one.)
C19_SameInputsSameSummary ==
    \A i, j \in DOMAIN calls :
        SameInputs(calls[i], calls[j]) => calls[i].ret = calls[j].ret

\* WELCOME15, a single-use code, accepted twice for the same cart
C19_Witness ==
    /\ Len(calls) = 2
    /\ SameInputs(calls[1], calls[2])
    /\ calls[1].items = << BulkLine, PlainLine >>
    /\ calls[1].promoCode = Some(WELCOME15)
    /\ Val(calls[1].ret.promoResult).valid
    /\ Val(calls[2].ret.promoResult).valid
    /\ calls[1].ret = calls[2].ret

\* C20: the promo registry is never written: after any sequence of calls to
\* applyPromoCode, getAvailablePromoCodes and calculateCartSummary it holds
\* the three entries SAVE10, FLAT20 and WELCOME15 with every field at its
\* initial value.
C20_RegistryNeverWritten ==
    /\ PROMO_CODES = InitialPromoCodes
    /\ Len(PROMO_CODES) = 3
    /\ [ i \in 1 .. 3 |-> PROMO_CODES[i].code ] = << SAVE10, FLAT20, WELCOME15 >>
    /\ [ i \in 1 .. 3 |-> PROMO_CODES[i].current_uses ] = << 0, 12, 0 >>
    /\ \A i \in 1 .. 3 : PROMO_CODES[i].active

\* WELCOME15 accepted in two summaries and again by applyPromoCode, its
\* current_uses still 0
C20_Witness ==
    /\ Len(calls) = 2
    /\ \A i \in 1 .. 2 :
          /\ calls[i].promoCode = Some(WELCOME15)
          /\ Val(calls[i].ret.promoResult).valid
    /\ Applied
    /\ ret.code = WELCOME15
    /\ ret.valid
    /\ PROMO_CODES[3].current_uses = 0

-----------------------------------------------------------------------------
(* Further properties of the pricing results *)

\* C23: finalPrice >= 0 for every price >= 0, discount_percentage null or
\* 0..100, quantity >= 1 and either authenticated value; with
\* discount_percentage = 100 the final price is exactly 0.
C23_FinalPriceNonNegative ==
    Priced =>
        /\ ret.finalPrice >= 0
        /\ args.product.discount_percentage = Some(100) => ret.finalPrice = 0

\* a $99.99 product at 100% off, three of them, for a member
C23_Witness ==
    /\ Priced
    /\ args.product = [ price |-> 9999, discount_percentage |-> Some(100) ]
    /\ args.quantity = 3
    /\ args.isAuthenticated
    /\ ret.originalPrice = 29997
    /\ ret.finalPrice = 0

\* the rank of a kind of entry in a line's breakdown
KindRank(type) ==
    CASE type = "product" -> 1
      [] type = "bulk" -> 2
      [] type = "member" -> 3
      [] OTHER -> 4

\* at most one entry of each kind, in the order product, bulk, member
LineOrdered(discounts) ==
    \A i, j \in DOMAIN discounts :
        i < j => KindRank(discounts[i].type) < KindRank(discounts[j].type)

\* C25: a PricingResult's discounts hold at most one entry of each kind, in
\* the order product, bulk, member; a summary's discounts are the lines'
\* lists in line order followed by at most one promo entry, which is last.
C25_DiscountsOrder ==
    /\ Priced =>
          /\ LineOrdered(ret.discounts)
          /\ \A i \in DOMAIN ret.discounts : KindRank(ret.discounts[i].type) <= 3
    /\ Summarised =>
          LET n == Len(ret.items)
              lines == Concat([ i \in 1 .. n |-> ret.items[i].pricing.discounts ])
              promos == EntriesOfType(ret.discounts, "promo")
          IN  /\ \A i \in 1 .. n : LineOrdered(ret.items[i].pricing.discounts)
              /\ SubSeq(ret.discounts, 1, Len(lines)) = lines
              /\ Len(ret.discounts) \in { Len(lines), Len(lines) + 1 }
              /\ promos \subseteq { Len(lines) + 1 }
              /\ Len(ret.discounts) = Len(lines) + Cardinality(promos)

\* a bulk line for a member followed by a plain line, with SAVE10: product,
\* bulk, member, member, promo
C25_Witness ==
    /\ Summarised
    /\ Len(ret.items) = 2
    /\ [ i \in 1 .. Len(ret.discounts) |-> ret.discounts[i].type ] =
           << "product", "bulk", "member", "member", "promo" >>

\* the sum of the amounts of a breakdown
SumAmounts(discounts) ==
    Sum([ i \in 1 .. Len(discounts) |-> discounts[i].amount ])

\* C26: the breakdown amounts are rounded one by one, so their sum may
\* differ from totalDiscount, by at most 2 cents.
C26_BreakdownWithinTwoCents ==
    Priced =>
        LET diff == SumAmounts(ret.discounts) - ret.totalDiscount IN
        diff >= -2 /\ diff <= 2

\* one cent at 50% off: the entry says 0.01 (half a cent rounded up), the
\* final price is 0.01 as well, so totalDiscount is 0
C26_Witness ==
    /\ Priced
    /\ args.product = [ price |-> 1, discount_percentage |-> Some(50) ]
    /\ args.quantity = 1
    /\ ~args.isAuthenticated
    /\ SumAmounts(ret.discounts) = 1
    /\ ret.totalDiscount = 0

-----------------------------------------------------------------------------
(* Uses of a promo code *)

\* C24: a successful application consumes no use: a code accepted for an
\* order total is accepted by every later application with the same total,
\* made by applyPromoCode or inside calculateCartSummary; WELCOME15
\* (max_uses 1, current_uses 0) is accepted every time and never meets the
\* usage limit.
C24_AcceptedAgain ==
    /\ \A i, j \in DOMAIN calls :
          /\ i < j
          /\ calls[i].ret.valid
          /\ calls[j].ret.code = calls[i].ret.code
          /\ calls[j].orderTotal = calls[i].orderTotal
          => calls[j].ret.valid
    /\ \A i \in DOMAIN calls :
          calls[i].ret.code = WELCOME15 => calls[i].ret.valid
    /\ Applied /\ ret.code = WELCOME15 => ret.valid
    /\ Summarised /\ Val(ret.promoResult).code = WELCOME15 =>
          Val(ret.promoResult).valid
    /\ PROMO_CODES[3].code = WELCOME15
    /\ PROMO_CODES[3].max_uses = Some(1)
    /\ PROMO_CODES[3].current_uses = 0

\* WELCOME15 accepted for $50 by applyPromoCode twice, and a third time
\* inside a summary
C24_Witness ==
    /\ Len(calls) = 2
    /\ \A i \in 1 .. 2 :
          /\ calls[i].ret.code = WELCOME15
          /\ calls[i].orderTotal = Dollars(50)
          /\ calls[i].ret.valid
          /\ calls[i].ret.discount_amount = 750
    /\ Summarised
    /\ Val(ret.promoResult).code = WELCOME15
    /\ Val(ret.promoResult).valid

-----------------------------------------------------------------------------
(* Properties of the cart API *)

Routes == { "GET", "POST", "PATCH", "DELETE" }

\* the request just answered
Answered(route) == fn = route

\* the rows of the table that user does not own
RowsOfOthers(rows, user) == { r \in rows : r.user_id # user }

\* C21: a request to any /api/cart handler without an authenticated user is
\* answered 401 "Authentication required" whatever its body holds, and sends
\* no statement to the table, which stays as it was.
C21_UnauthenticatedRefused ==
    [][ fn' \in Routes /\ IsNull(args'.user) =>
          /\ ret' = Respond(401, "error", "Authentication required")
          /\ dbLog' = << >>
          /\ cart_items' = cart_items ]_vars

\* a POST with no product_id, a string for quantity and no session, answered
\* 401 while the table holds rows
C21_Witness ==
    /\ Answered("POST")
    /\ IsNull(args.user)
    /\ IsNull(args.body.product_id)
    /\ args.body.quantity = Some([ type |-> "string" ])
    /\ ret.status = 401
    /\ cart_items # { }

\* C22: a PATCH or DELETE made by a user leaves every row owned by another user
\* in the table with its quantity, also when item_id names such a row, and a
\* GET returns only rows of the user who made it.
C22_OwnRowsOnly ==
    [][ fn' \in Routes /\ ~IsNull(args'.user) =>
          /\ fn' \in { "PATCH", "DELETE" } =>
                RowsOfOthers(cart_items', Val(args'.user))
                    = RowsOfOthers(cart_items, Val(args'.user))
          /\ fn' = "GET" =>
                /\ ret'.status = 200
                /\ ret'.value = { r \in cart_items : r.user_id = Val(args'.user) } ]_vars

\* A has deleted by the id of a row of B, was answered 200, and the row is there
C22_Witness ==
    /\ Answered("DELETE")
    /\ args.user = Some("A")
    /\ ret.status = 200
    /\ \E r \in cart_items :
          /\ r.user_id = "B"
          /\ args.body.item_id = Some(r.id)
    /\ \E r \in cart_items : r.user_id = "A"

\* a quantity field that is present and is not a number, or is below least
BadQuantity(quantity, least) ==
    /\ ~IsNull(quantity)
    /\ Val(quantity).type # "number" \/ Val(quantity).halves < least

InvalidPost(body) ==
    IsNull(body.product_id) \/ BadQuantity(body.quantity, Halves(1))

InvalidPatch(body) ==
    \/ IsNull(body.item_id)
    \/ IsNull(body.quantity)
    \/ BadQuantity(body.quantity, 0)

InvalidRequest ==
    \/ fn' = "POST" /\ InvalidPost(args'.body)
    \/ fn' = "PATCH" /\ InvalidPatch(args'.body)

QuantitiesValid(rows) ==
    \A r \in rows : IsInteger(r.quantity) /\ r.quantity >= Halves(1)

\* at most one row per (user, product)
OneRowPerProduct(rows) ==
    \A r1, r2 \in rows :
        r1.user_id = r2.user_id /\ r1.product_id = r2.product_id => r1 = r2

\* the row of user for product, as a set
RowFor(rows, user, product) ==
    { r \in rows : r.user_id = user /\ r.product_id = product }

\* C28: requests handled one at a time leave every row with an integer quantity
\* of at least 1 and at most one row per (user, product); an accepted POST for
\* a product the user already has adds the quantity to that row and inserts
\* none, and an accepted PATCH with quantity 0 removes the row of the caller
\* it names.
C28_RowsValid ==
    [][ /\ QuantitiesValid(cart_items')
        /\ OneRowPerProduct(cart_items')
        /\ fn' = "POST" /\ ret'.status = 201 =>
              LET user == Val(args'.user)
                  product == Val(args'.body.product_id)
                  had == RowFor(cart_items, user, product)
              IN  had # { } =>
                    /\ Cardinality(cart_items') = Cardinality(cart_items)
                    /\ \A r \in had :
                          [ r EXCEPT !.quantity = @ + PostQuantity(args'.body).halves ]
                              \in cart_items'
        /\ fn' = "PATCH" /\ ret'.status = 200
              /\ Val(args'.body.quantity).halves = 0 =>
              \A r \in cart_items' :
                  r.user_id = Val(args'.user) => Some(r.id) # args'.body.item_id ]_vars

\* a POST of 1 answered 201 for a product the user had, whose row now holds 2,
\* beside a row of the same user for the other product
C28_Witness ==
    /\ Answered("POST")
    /\ ret.status = 201
    /\ args.body.quantity = Some(Number(Halves(1)))
    /\ \E r \in cart_items :
          /\ r.user_id = Val(args.user)
          /\ Some(r.product_id) = args.body.product_id
          /\ r.quantity = Halves(2)
    /\ Cardinality({ r \in cart_items : r.user_id = Val(args.user) }) = 2

-----------------------------------------------------------------------------
(* Properties of concurrent addToCart calls *)

\* both calls have returned or thrown
BothDone == \A i \in DOMAIN adds : adds[i].pc = "done"

\* C29: whatever the order of the statements of two addToCart calls for the
\* same user and product, once both are over neither has failed and the table
\* holds one row for the product, with the quantity it had when the calls were
\* made (0 if there was no row) plus the two quantities added.
C29_AsStated ==
    Len(adds) = 2 /\ BothDone =>
        /\ \A i \in DOMAIN adds : IsNull(adds[i].error)
        /\ Cardinality(RowFor(cart_items, adds[1].userId, adds[1].productId)) = 1
        /\ Stored(cart_items, adds[1].userId, adds[1].productId)
              = adds[1].started + adds[1].quantity + adds[2].quantity

\* both calls read the same row before either wrote: one increment is lost
C29_LostUpdate ==
    /\ Len(adds) = 2
    /\ BothDone
    /\ \A i \in DOMAIN adds : IsNull(adds[i].error) /\ ~IsNull(adds[i].existing)
    /\ adds[1].started > 0
    /\ Stored(cart_items, adds[1].userId, adds[1].productId)
          = adds[1].started + adds[2].quantity

\* both calls found no row: the second insert breaks UNIQUE(user_id, product_id)
C29_SecondInsertFails ==
    /\ Len(adds) = 2
    /\ BothDone
    /\ adds[1].started = 0
    /\ \E i \in DOMAIN adds :
          adds[i].error = Some(<< "Failed to add to cart: ", "23505" >>)

-----------------------------------------------------------------------------
(* Properties of the guest cart *)

\* the entries of cart for productId
EntriesFor(cart, productId) ==
    { i \in 1 .. Len(cart) : cart[i].product_id = productId }

\* the quantity cart holds for productId; 0 when it has no entry
GuestQuantity(cart, productId) ==
    IF EntriesFor(cart, productId) = { } THEN 0
    ELSE cart[CHOOSE i \in EntriesFor(cart, productId) : TRUE].quantity

====
